---- MODULE Spec2Model ----
(***************************************************************************)
(* Model of OutgoingDDCIQ (sw_projects/P2_app/OutDDCIQ.c): the thread that *)
(* reads DMA bursts of interleaved DDC I/Q frames from the FPGA FIFO,      *)
(* slices them into per-DDC sample buffers and sends 1444-byte UDP         *)
(* datagrams.                                                              *)
(*                                                                         *)
(* Memory is byte-precise.  A buffer is held as the sequence of the bytes  *)
(* in [ReadPtr, HeadPtr) together with the two offsets into the 131072     *)
(* byte allocation; bytes outside that window are never read by the code.  *)
(* The host is little-endian (Raspberry Pi CM4).                           *)
(***************************************************************************)
EXTENDS Integers, Sequences, FiniteSets, TLC

(* ------------------------- program constants --------------------------- *)
VDMABUFFERSIZE == 131072
VBASE == 4096
VDMATRANSFERSIZE == 4096
VDDCPACKETSIZE == 1444
VIQSAMPLESPERFRAME == 238
VIQBYTESPERFRAME == 6 * VIQSAMPLESPERFRAME
VSTARTUPDELAY == 100
SyncByte == 128
SampleBits == 24

(* ------------------------------ bounds --------------------------------- *)
\* number of DDCs (VNUMDDC, a compile-time constant of a header)
VNUMDDC == 2
\* DMA bursts a behaviour may issue
MaxBursts == 3
\* DMA bursts in the behaviours that run past the start-up delay
MaxBurstsStartup == 100
\* times the radio application may set SDRActive
MaxStarts == 2
\* port-change requests the command thread may make
MaxPortChanges == 2

DDCs == 0 .. (VNUMDDC - 1)

(* ------------------------------ bytes ---------------------------------- *)
Pow2(n) == 2 ^ n

\* htonl(v) stored through a uint32_t pointer: the four bytes in memory
htonlBytes(v) ==
    << (v \div 16777216) % 256, (v \div 65536) % 256, (v \div 256) % 256, v % 256 >>

\* htons(v) stored through a uint16_t pointer: the two bytes in memory
htonsBytes16(v) == << (v \div 256) % 256, v % 256 >>

\* htons(v) widened to uint32_t and stored through a uint32_t pointer on the
\* little-endian host: htons gives the 16-bit value (lo*256 + hi), whose upper
\* half is zero once widened
htonsBytes32(v) == << (v \div 256) % 256, v % 256, 0, 0 >>

\* memcpy(buf + off, bytes, Len(bytes)); off counts from 0
MemWrite(buf, off, bytes) ==
    SubSeq(buf, 1, off) \o bytes \o SubSeq(buf, off + Len(bytes) + 1, Len(buf))

\* memset(buf + off, 0, n)
MemZero(buf, off, n) == MemWrite(buf, off, [i \in 1 .. n |-> 0])

Zeros(n) == [i \in 1 .. n |-> 0]

(* ------------------------- rate word decoder --------------------------- *)
\* A rate word is held as its four bytes in memory order, so that the value
\* 0xFFFFFFFF is representable.
AllOnes == << 255, 255, 255, 255 >>

RateBit(rw, i) == (rw[(i \div 8) + 1] \div Pow2(i % 8)) % 2

\* three bits per DDC, least significant first
RateCode(rw, d) ==
    IF 3 * d + 2 > 31 THEN 0
    ELSE RateBit(rw, 3 * d) + 2 * RateBit(rw, 3 * d + 1) + 4 * RateBit(rw, 3 * d + 2)

DDCSampleCounts == << 0, 1, 2, 4, 8, 16, 32, 0 >>

RateCounts(rw) == [d \in DDCs |-> DDCSampleCounts[RateCode(rw, d) + 1]]

RECURSIVE SumTo(_, _)
SumTo(f, n) == IF n < 0 THEN 0 ELSE f[n] + SumTo(f, n - 1)

SumCounts(c) == SumTo(c, VNUMDDC - 1)

\* AnalyseDDCHeader(RateWord, &DDCCounts[0]): frame length in 8-byte words
\* without the header word, and the per-DDC counts
AnalyseDDCHeader(rw) ==
    [FrameLength |-> 2 * SumCounts(RateCounts(rw)), DDCCounts |-> RateCounts(rw)]

FrameBytes(rw) == (AnalyseDDCHeader(rw).FrameLength + 1) * 8

\* rate words used by the streams below
RwDDC0x32 == << 6, 0, 0, 0 >>
RwDDC0x2 == << 2, 0, 0, 0 >>
RwBoth32 == << 54, 0, 0, 0 >>
RwDDC1x16 == << 40, 0, 0, 0 >>


(* --------------------------- the FPGA stream --------------------------- *)
\* What the FPGA puts into the DDC FIFO is fixed by a scenario record:
\*   noise     bytes of slot-aligned noise before the first header
\*   rwA, rwB  rate word of the frames before / from frame number switchAt
\*   bad       number of the frame whose header has no sync byte, or -1
\* The bytes come out of the FIFO in order, whatever the burst sizes.
NoiseByte(p) == IF p % 8 = 0 THEN SyncByte ELSE 17 + (p % 8)

HeaderByte(rw, o, isBad) ==
    IF o < 4 THEN rw[o + 1]
    ELSE IF o < 7 THEN 0
    ELSE IF isBad THEN 0 ELSE SyncByte

\* bytes 0-5 of a sample slot carry the sample, bytes 6-7 are padding
SlotByte(p) == IF p % 8 < 6 THEN 1 + (p % 127) ELSE 0

\* first byte of frame number f in the stream
FramePos(e, f) ==
    e.noise + (IF f < e.switchAt THEN f * e.FA
               ELSE e.switchAt * e.FA + (f - e.switchAt) * e.FB)

FrameRate(e, f) == IF f < e.switchAt THEN e.rwA ELSE e.rwB

\* number of the frame that holds stream byte p (p >= e.noise)
FrameOf(e, p) ==
    LET q == p - e.noise
        split == e.switchAt * e.FA
    IN  IF q < split THEN q \div e.FA ELSE e.switchAt + ((q - split) \div e.FB)

StreamByte(e, p) ==
    IF p < e.noise THEN NoiseByte(p)
    ELSE LET f == FrameOf(e, p)
             o == p - FramePos(e, f)
         IN  IF o < 8 THEN HeaderByte(FrameRate(e, f), o, f = e.bad)
             ELSE SlotByte(p)

StreamBytes(e, from, n) == [i \in 1 .. n |-> StreamByte(e, from + i - 1)]

Scenario(noise, rwA, rwB, switchAt, bad, failAt, depths, overs, maxBursts, maxStarts, stopFrom, ports, gfo) ==
    [noise |-> noise, rwA |-> rwA, rwB |-> rwB, switchAt |-> switchAt,
     bad |-> bad, failAt |-> failAt, depths |-> depths, overs |-> overs,
     maxBursts |-> maxBursts, maxStarts |-> maxStarts, stopFrom |-> stopFrom,
     ports |-> ports, gfo |-> gfo, FA |-> FrameBytes(rwA), FB |-> FrameBytes(rwB)]

(* ------------------------------- state --------------------------------- *)
VARIABLES
    pc,                  \* position of the thread in OutgoingDDCIQ
    DDC,                 \* loop variable of the drain loop
    DMAmem,              \* bytes of the DMA buffer in [DMAReadPtr, DMAHeadPtr)
    DMAReadPtr,          \* offsets into DMAReadBuffer
    DMAHeadPtr,
    IQmem,               \* per DDC: bytes in [IQReadPtr, IQHeadPtr)
    IQReadPtr,           \* per DDC: offsets into DDCSampleBuffer[DDC]
    IQHeadPtr,
    UDPBuffer,           \* per DDC: the 1444 byte packet buffer
    iov_len,             \* per DDC: iovecinst[DDC].iov_len
    SequenceCounter,
    FrameLength,
    DDCCounts,
    PrevRateWord,
    HeaderFound,
    DecodeByteCount,
    DMATransferSize,
    Depth,
    FIFOOverThreshold,
    StartupCount,
    InitError,
    SDRActive,           \* set by the radio application
    GlobalFIFOOverflows, \* set of the bit numbers that are 1
    Cmdid,               \* per DDC: set of the command bits that are 1
    Socketid,            \* per DDC: descriptor of its socket
    OpenSockets,         \* descriptors that are open
    Active,              \* per DDC: ThreadData[DDC].Active
    RXDDCEnabled,        \* last value given to SetRXDDCEnabled
    BuffersFreed,        \* FreeDynamicMemory has run
    env,                 \* the scenario
    fpos,                \* stream bytes taken out of the FIFO so far
    nbursts,             \* DMA reads issued
    nstarts,             \* times SDRActive was set
    nports,              \* port changes requested
    session,             \* stream starts (armings) so far
    sessSent,            \* per DDC: datagrams offered to sendmsg this session
    pktsSession,         \* datagrams offered this session, all DDCs
    totalSent,           \* datagrams offered since the thread started
    wire,                \* the datagram the last step handed to sendmsg
    syncPos,             \* stream position where this session began to parse
    sliced,              \* layout used for the frame the last step sliced
    polled               \* the last step read the FIFO monitor

ringVars == << DMAmem, DMAReadPtr, DMAHeadPtr, IQmem, IQReadPtr, IQHeadPtr >>
pktVars == << UDPBuffer, iov_len, SequenceCounter >>
parseVars == << FrameLength, DDCCounts, PrevRateWord, HeaderFound, DecodeByteCount >>
fifoVars == << DMATransferSize, Depth, FIFOOverThreshold, StartupCount,
               GlobalFIFOOverflows >>
sockVars == << Cmdid, Socketid, OpenSockets, Active, RXDDCEnabled, BuffersFreed >>
envVars == << env, fpos, nbursts, nstarts, nports >>
histVars == << session, sessSent, pktsSession, totalSent, wire, syncPos, sliced,
               polled >>
vars == << pc, DDC, ringVars, pktVars, parseVars, fifoVars, InitError, SDRActive,
           sockVars, envVars, histVars >>

NoDatagram == [ddc |-> -1, data |-> << >>, result |-> 0]
NoSlice == [rw |-> << >>, FrameLength |-> 0, DDCCounts |-> [d \in DDCs |-> 0],
            src |-> -1]

\* values an uninitialised FrameLength / DDCCounts[] may hold when the thread
\* starts (they are locals without initialiser)
GarbageLayouts ==
    { [FrameLength |-> 2, DDCCounts |-> [d \in DDCs |-> IF d = 0 THEN 1 ELSE 0]],
      [FrameLength |-> 1, DDCCounts |-> [d \in DDCs |-> IF d = 0 THEN 21846 ELSE 0]],
      [FrameLength |-> 0, DDCCounts |-> [d \in DDCs |-> 0]] }

\* the state when the thread reaches the outer loop (lines 119-143), for a
\* scenario of the set E and stack garbage of the set G
InitWith(E, G) ==
    /\ env \in E
    /\ \E g \in G : FrameLength = g.FrameLength /\ DDCCounts = g.DDCCounts
    /\ pc = "idle"
    /\ DDC = 0
    /\ DMAmem = << >>
    /\ DMAReadPtr = VBASE
    /\ DMAHeadPtr = VBASE
    /\ IQmem = [d \in DDCs |-> << >>]
    /\ IQReadPtr = [d \in DDCs |-> VBASE]
    /\ IQHeadPtr = [d \in DDCs |-> VBASE]
    /\ UDPBuffer = [d \in DDCs |-> Zeros(VDDCPACKETSIZE)]
    /\ iov_len = [d \in DDCs |-> 0]
    /\ SequenceCounter = [d \in DDCs |-> 0]
    /\ PrevRateWord = AllOnes
    /\ HeaderFound = FALSE
    /\ DecodeByteCount = 0
    /\ DMATransferSize = VDMATRANSFERSIZE
    /\ Depth = 0
    /\ FIFOOverThreshold = FALSE
    /\ StartupCount = 0
    /\ InitError = FALSE
    /\ SDRActive = FALSE
    /\ GlobalFIFOOverflows = env.gfo
    /\ Cmdid = [d \in DDCs |-> {}]
    /\ Socketid = [d \in DDCs |-> d]
    /\ OpenSockets = DDCs
    /\ Active = [d \in DDCs |-> TRUE]
    /\ RXDDCEnabled = FALSE
    /\ BuffersFreed = FALSE
    /\ fpos = 0
    /\ nbursts = 0
    /\ nstarts = 0
    /\ nports = 0
    /\ session = 0
    /\ sessSent = [d \in DDCs |-> 0]
    /\ pktsSession = 0
    /\ totalSent = 0
    /\ wire = NoDatagram
    /\ syncPos = -1
    /\ sliced = NoSlice
    /\ polled = FALSE

\* history that describes the last step only
Quiet == /\ wire' = NoDatagram
         /\ sliced' = NoSlice
         /\ polled' = FALSE

(* ------------------------- the radio application ----------------------- *)
\* the application sets SDRActive
StartSDR ==
    /\ ~SDRActive
    /\ nstarts < env.maxStarts
    /\ pc \notin {"done", "exited", "undefined"}
    /\ SDRActive' = TRUE
    /\ nstarts' = nstarts + 1
    /\ UNCHANGED << pc, DDC, ringVars, pktVars, parseVars, fifoVars, InitError,
                    sockVars, env, fpos, nbursts, nports, histVars >>

\* the application clears SDRActive
StopSDR ==
    /\ SDRActive
    /\ totalSent >= env.stopFrom
    /\ pc \notin {"done", "exited", "undefined"}
    /\ SDRActive' = FALSE
    /\ UNCHANGED << pc, DDC, ringVars, pktVars, parseVars, fifoVars, InitError,
                    sockVars, envVars, histVars >>

\* the command thread asks for a new port for DDC d
RequestChangePort(d) ==
    /\ nports < env.ports
    /\ pc \notin {"done", "exited", "undefined"}
    /\ "changeport" \notin Cmdid[d]
    /\ Cmdid' = [Cmdid EXCEPT ![d] = @ \cup {"changeport"}]
    /\ nports' = nports + 1
    /\ UNCHANGED << pc, DDC, ringVars, pktVars, parseVars, fifoVars, InitError,
                    SDRActive, Socketid, OpenSockets, Active, RXDDCEnabled,
                    BuffersFreed, env, fpos, nbursts, nstarts, histVars >>

(* ------------------------------ the thread ----------------------------- *)
\* variant of FreshSocket: the DDC keeps the socket it has
FreshSocketSame(d) == Socketid[d]

\* line 152, MakeSocket: the socket DDC d gets (sockets are told apart by a
\* number no socket has had yet, not by the descriptor's value)
FreshSocket(d) == Socketid[d] + VNUMDDC

\* lines 146-156: one pass of the idle loop
Idle ==
    /\ pc = "idle"
    /\ ~SDRActive
    /\ \E d \in DDCs : "changeport" \in Cmdid[d]
    /\ Socketid' = [d \in DDCs |->
           IF "changeport" \in Cmdid[d] THEN FreshSocket(d) ELSE Socketid[d]]
    /\ OpenSockets' =
           (OpenSockets \ {Socketid[d] : d \in {x \in DDCs : "changeport" \in Cmdid[x]}})
           \cup {FreshSocket(d) : d \in {x \in DDCs : "changeport" \in Cmdid[x]}}
    /\ Cmdid' = [d \in DDCs |-> Cmdid[d] \ {"changeport"}]
    /\ Quiet
    /\ UNCHANGED << pc, DDC, ringVars, pktVars, parseVars, fifoVars, InitError,
                    SDRActive, Active, RXDDCEnabled, BuffersFreed, envVars,
                    session, sessSent, pktsSession, totalSent, syncPos >>

\* lines 157-174: the stream starts
Arm ==
    /\ pc = "idle"
    /\ SDRActive
    /\ StartupCount' = VSTARTUPDELAY
    /\ SequenceCounter' = [d \in DDCs |-> 0]
    /\ iov_len' = [d \in DDCs |-> VDDCPACKETSIZE]
    /\ RXDDCEnabled' = TRUE
    /\ HeaderFound' = FALSE
    /\ pc' = "check"
    /\ session' = session + 1
    /\ sessSent' = [d \in DDCs |-> 0]
    /\ pktsSession' = 0
    /\ syncPos' = -1
    /\ Quiet
    /\ UNCHANGED << DDC, ringVars, UDPBuffer, FrameLength, DDCCounts, PrevRateWord,
                    DecodeByteCount, DMATransferSize, Depth, FIFOOverThreshold,
                    GlobalFIFOOverflows, InitError, SDRActive, Cmdid, Socketid,
                    OpenSockets, Active, BuffersFreed, envVars, totalSent >>

\* variant of KeepStreaming: SDRActive is not looked at
KeepStreamingDeaf(err, active) == ~err

\* line 175: the condition of the streaming loop
KeepStreaming(err, active) == ~err /\ active

\* lines 175 and 144, and lines 312-316 once both loops are left
StreamCheck ==
    /\ pc = "check"
    /\ IF KeepStreaming(InitError, SDRActive)
       THEN /\ nbursts < env.maxBursts
            /\ pc' = "drain"
            /\ DDC' = 0
            /\ UNCHANGED << OpenSockets, Active, BuffersFreed >>
       ELSE IF ~InitError
       THEN /\ pc' = "idle"
            /\ UNCHANGED << DDC, OpenSockets, Active, BuffersFreed >>
       ELSE /\ pc' = "done"
            /\ OpenSockets' = OpenSockets \ {Socketid[0]}
            /\ Active' = [Active EXCEPT ![0] = FALSE]
            /\ BuffersFreed' = TRUE
            /\ UNCHANGED DDC
    /\ Quiet
    /\ UNCHANGED << ringVars, pktVars, parseVars, fifoVars, InitError, SDRActive,
                    Cmdid, Socketid, RXDDCEnabled, envVars, session, sessSent,
                    pktsSession, totalSent, syncPos >>

\* variant of ComposePacket: the four-byte store at offset 14 comes last
ComposePacketHeaderLast(buf, seq, ring) ==
    LET b1 == MemWrite(buf, 0, htonlBytes(seq))
        b2 == MemZero(b1, 4, 8)
        b3 == MemWrite(b2, 12, htonsBytes16(SampleBits))
        b4 == MemWrite(b3, 16, SubSeq(ring, 1, VIQBYTESPERFRAME))
    IN  MemWrite(b4, 14, htonsBytes32(VIQSAMPLESPERFRAME))

\* lines 181-185: the packet put together in UDPBuffer[DDC]
ComposePacket(buf, seq, ring) ==
    LET b1 == MemWrite(buf, 0, htonlBytes(seq))
        b2 == MemZero(b1, 4, 8)
        b3 == MemWrite(b2, 12, htonsBytes16(SampleBits))
        b4 == MemWrite(b3, 14, htonsBytes32(VIQSAMPLESPERFRAME))
    IN  MemWrite(b4, 16, SubSeq(ring, 1, VIQBYTESPERFRAME))

\* line 181: SequenceCounter[DDC]++
\* variant of SeqAfterSend: the counter stays
SeqAfterSendStuck(s) == s
SeqAfterSend(s) == s + 1

\* variant of DrainMore: a full frame is enough
DrainMoreOrEqual(head, read) == (head - read) >= VIQBYTESPERFRAME

\* line 179: the drain loop goes on
DrainMore(head, read) == (head - read) > VIQBYTESPERFRAME

\* line 186
Consumed == VIQBYTESPERFRAME

\* lines 189-190
CountDown(c) == IF c # 0 THEN c - 1 ELSE c

\* result of the n-th sendmsg of the scenario
SendResult(e, n) == IF n = e.failAt THEN -1 ELSE VDDCPACKETSIZE

\* lines 179-196: one pass of the drain loop of DDC
DrainPacket ==
    /\ pc = "drain"
    /\ DrainMore(IQHeadPtr[DDC], IQReadPtr[DDC])
    /\ LET pkt == ComposePacket(UDPBuffer[DDC], SequenceCounter[DDC], IQmem[DDC])
           res == SendResult(env, totalSent + 1)
       IN  /\ UDPBuffer' = [UDPBuffer EXCEPT ![DDC] = pkt]
           /\ wire' = [ddc |-> DDC, data |-> SubSeq(pkt, 1, iov_len[DDC]),
                       result |-> res]
           /\ InitError' = IF res = -1 THEN TRUE ELSE InitError
    /\ SequenceCounter' = [SequenceCounter EXCEPT ![DDC] = SeqAfterSend(@)]
    /\ IQReadPtr' = [IQReadPtr EXCEPT ![DDC] = @ + Consumed]
    /\ IQmem' = [IQmem EXCEPT ![DDC] = SubSeq(@, Consumed + 1, Len(@))]
    /\ StartupCount' = CountDown(StartupCount)
    /\ sessSent' = [sessSent EXCEPT ![DDC] = @ + 1]
    /\ pktsSession' = pktsSession + 1
    /\ totalSent' = totalSent + 1
    /\ sliced' = NoSlice
    /\ polled' = FALSE
    /\ UNCHANGED << pc, DDC, DMAmem, DMAReadPtr, DMAHeadPtr, IQHeadPtr, iov_len,
                    parseVars, DMATransferSize, Depth, FIFOOverThreshold,
                    GlobalFIFOOverflows, SDRActive, sockVars, envVars, session,
                    syncPos >>

\* variant of Compact: the read pointer is put behind the base
CompactWrongSide(mem, read, head, base) ==
    LET ResidueBytes == head - read
    IN  IF read > base
        THEN [mem |-> SubSeq(mem, 1, ResidueBytes),
              read |-> base + ResidueBytes,
              head |-> base]
        ELSE [mem |-> mem, read |-> read, head |-> head]

\* lines 197-208 and 298-309: the pointers and the live bytes after the
\* residue is moved in front of the base
Compact(mem, read, head, base) ==
    LET ResidueBytes == head - read
    IN  IF read > base
        THEN [mem |-> SubSeq(mem, 1, ResidueBytes),
              read |-> base - ResidueBytes,
              head |-> base]
        ELSE [mem |-> mem, read |-> read, head |-> head]

\* variant of CompactIQRing: the residue is not kept
CompactIQRingLossy(mem, read, head) ==
    IF read > VBASE
    THEN [mem |-> << >>, read |-> VBASE, head |-> VBASE]
    ELSE [mem |-> mem, read |-> read, head |-> head]

\* lines 197-208 with IQBasePtr[DDC]
CompactIQRing(mem, read, head) == Compact(mem, read, head, VBASE)

\* variant of CompactDMARing: the residue is not kept
CompactDMARingLossy(mem, read, head) ==
    IF read > VBASE
    THEN [mem |-> << >>, read |-> VBASE, head |-> VBASE]
    ELSE [mem |-> mem, read |-> read, head |-> head]

\* lines 298-309 with DMABasePtr
CompactDMARing(mem, read, head) == Compact(mem, read, head, VBASE)

\* lines 197-208: the drain loop of DDC is over
CompactIQ ==
    /\ pc = "drain"
    /\ ~DrainMore(IQHeadPtr[DDC], IQReadPtr[DDC])
    /\ LET c == CompactIQRing(IQmem[DDC], IQReadPtr[DDC], IQHeadPtr[DDC])
       IN  /\ IQmem' = [IQmem EXCEPT ![DDC] = c.mem]
           /\ IQReadPtr' = [IQReadPtr EXCEPT ![DDC] = c.read]
           /\ IQHeadPtr' = [IQHeadPtr EXCEPT ![DDC] = c.head]
    /\ IF DDC + 1 < VNUMDDC
       THEN DDC' = DDC + 1 /\ pc' = pc
       ELSE DDC' = DDC /\ pc' = "poll"
    /\ Quiet
    /\ UNCHANGED << DMAmem, DMAReadPtr, DMAHeadPtr, pktVars, parseVars, fifoVars,
                    InitError, SDRActive, sockVars, envVars, session, sessSent,
                    pktsSession, totalSent, syncPos >>

\* variant of Latch: the start-up count is not looked at
LatchAlways(gfo, count, over) == IF over THEN gfo \cup {0} ELSE gfo

\* lines 211-216 and 221-226: the overflow bit after a read of the monitor
Latch(gfo, count, over) == IF count = 0 /\ over THEN gfo \cup {0} ELSE gfo

\* lines 210-216: the FIFO monitor is read
PollFIFO ==
    /\ pc = "poll"
    /\ \E dep \in env.depths, over \in env.overs :
          /\ Depth' = dep
          /\ FIFOOverThreshold' = over
          /\ GlobalFIFOOverflows' = Latch(GlobalFIFOOverflows, StartupCount, over)
    /\ pc' = "wait"
    /\ polled' = TRUE
    /\ wire' = NoDatagram
    /\ sliced' = NoSlice
    /\ UNCHANGED << DDC, ringVars, pktVars, parseVars, DMATransferSize,
                    StartupCount, InitError, SDRActive, sockVars, envVars,
                    session, sessSent, pktsSession, totalSent, syncPos >>

\* variant of MustWait: the thread does not wait for the FIFO
MustWaitNever(depth, size) == FALSE

\* line 217: the FIFO holds less than the burst the thread waits for
MustWait(depth, size) == depth < (size \div 8)

\* lines 217-227: one pass of the wait loop
WaitFIFO ==
    /\ pc = "wait"
    /\ MustWait(Depth, DMATransferSize)
    /\ \E dep \in env.depths, over \in env.overs :
          /\ Depth' = dep
          /\ FIFOOverThreshold' = over
          /\ GlobalFIFOOverflows' = Latch(GlobalFIFOOverflows, StartupCount, over)
    /\ polled' = TRUE
    /\ wire' = NoDatagram
    /\ sliced' = NoSlice
    /\ UNCHANGED << pc, DDC, ringVars, pktVars, parseVars, DMATransferSize,
                    StartupCount, InitError, SDRActive, sockVars, envVars,
                    session, sessSent, pktsSession, totalSent, syncPos >>

\* lines 228-235
BurstSize(depth) ==
    IF depth > 4096 THEN 32768
    ELSE IF depth > 2048 THEN 16384
    ELSE IF depth > 1024 THEN 8192
    ELSE 4096

\* lines 228-237: the burst is read from the FIFO to DMAHeadPtr
DMARead ==
    /\ pc = "wait"
    /\ ~MustWait(Depth, DMATransferSize)
    /\ DMATransferSize' = BurstSize(Depth)
    /\ DMAmem' = DMAmem \o StreamBytes(env, fpos, BurstSize(Depth))
    /\ DMAHeadPtr' = DMAHeadPtr + BurstSize(Depth)
    /\ fpos' = fpos + BurstSize(Depth)
    /\ nbursts' = nbursts + 1
    /\ pc' = "sync"
    /\ Quiet
    /\ UNCHANGED << DDC, DMAReadPtr, IQmem, IQReadPtr, IQHeadPtr, pktVars,
                    parseVars, Depth, FIFOOverThreshold, StartupCount,
                    GlobalFIFOOverflows, InitError, SDRActive, sockVars, env,
                    nstarts, nports, session, sessSent, pktsSession, totalSent,
                    syncPos >>

FirstScanOffset == 16
MinDecodeBytes == 16

SetMin(S) == CHOOSE x \in S : \A y \in S : x <= y

\* variant of SyncOffset: the scan starts at DMAReadPtr
SyncOffsetFromZero(mem) ==
    LET hits == {c \in {8 * k : k \in 0 .. ((Len(mem) - 1) \div 8)} :
                    mem[c + 7 + 1] = SyncByte}
    IN  IF hits = {} THEN -1 ELSE SetMin(hits)

\* variant of SyncOffset: the scan goes on after a match
SyncOffsetNoBreak(mem) ==
    LET hits == {c \in {8 * k : k \in (FirstScanOffset \div 8) .. ((Len(mem) - 1) \div 8)} :
                    mem[c + 7 + 1] = SyncByte}
    IN  IF hits = {} THEN -1 ELSE CHOOSE x \in hits : \A y \in hits : x >= y

\* lines 239-247: the offset from DMAReadPtr where the scan stops, -1 when it
\* reaches DMAHeadPtr
SyncOffset(mem) ==
    LET hits == {c \in {8 * k : k \in (FirstScanOffset \div 8) .. ((Len(mem) - 1) \div 8)} :
                    mem[c + 7 + 1] = SyncByte}
    IN  IF hits = {} THEN -1 ELSE SetMin(hits)

\* lines 238-253: sync acquisition, then the byte count of the parse loop
SyncScan ==
    /\ pc = "sync"
    /\ LET off == IF HeaderFound THEN 0 ELSE SyncOffset(DMAmem)
       IN  IF off = -1
           THEN /\ InitError' = TRUE
                /\ pc' = "exited"
                /\ UNCHANGED << DMAmem, DMAReadPtr, HeaderFound, DecodeByteCount,
                                syncPos >>
           ELSE /\ HeaderFound' = TRUE
                /\ DMAReadPtr' = DMAReadPtr + off
                /\ DMAmem' = SubSeq(DMAmem, off + 1, Len(DMAmem))
                /\ DecodeByteCount' = DMAHeadPtr - (DMAReadPtr + off)
                /\ syncPos' = IF HeaderFound THEN syncPos
                              ELSE fpos - Len(DMAmem) + off
                /\ pc' = "parse"
                /\ UNCHANGED InitError
    /\ Quiet
    /\ UNCHANGED << DDC, DMAHeadPtr, IQmem, IQReadPtr, IQHeadPtr, pktVars,
                    FrameLength, DDCCounts, PrevRateWord, fifoVars, SDRActive,
                    sockVars, envVars, session, sessSent, pktsSession, totalSent >>

\* line 256: the header word at the start of mem has the sync byte
\* variant of FramingOK: the sync byte is not looked at
FramingOKUnchecked(mem) == TRUE
FramingOK(mem) == mem[7 + 1] = SyncByte

\* lines 264-270: the layout used for a frame with rate word rw
Layout(rw, prev, fl, counts) ==
    IF rw # prev THEN AnalyseDDCHeader(rw)
    ELSE [FrameLength |-> fl, DDCCounts |-> counts]

\* variant of SliceSamples: the two padding bytes of a slot are not skipped
SliceSamplesPacked(mem, counts, d) ==
    LET before == SumTo(counts, d - 1)
    IN  [j \in 1 .. 6 * counts[d] |-> mem[8 + 6 * before + j]]

\* lines 273-290: the bytes the copy loop appends to the buffer of DDC d from
\* the frame at the start of mem
SliceSamples(mem, counts, d) ==
    LET before == SumTo(counts, d - 1)
    IN  [j \in 1 .. 6 * counts[d] |->
            mem[8 + 8 * (before + ((j - 1) \div 6)) + ((j - 1) % 6) + 1]]

\* lines 291-292: bytes of the DMA buffer a frame takes
FrameAdvance(fl) == (fl + 1) * 8

\* lines 280-288: the copy loop with these counts reads behind the end of the
\* DMA buffer or writes behind the end of the buffer of a DDC
LeavesBuffer(read, heads, counts) ==
    \/ read + 8 + 8 * SumCounts(counts) > VDMABUFFERSIZE
    \/ \E d \in DDCs : heads[d] + 6 * counts[d] > VDMABUFFERSIZE

\* lines 254-297: one pass of the parse loop; after an access outside a
\* buffer anything may happen, the thread is followed no further ("undefined")
ParseFrame ==
    /\ pc = "parse"
    /\ IF DecodeByteCount < MinDecodeBytes
       THEN /\ pc' = "compact"
            /\ sliced' = NoSlice
            /\ UNCHANGED << ringVars, FrameLength, DDCCounts, PrevRateWord,
                            DecodeByteCount >>
       ELSE IF ~FramingOK(DMAmem)
       THEN /\ pc' = "exited"
            /\ sliced' = NoSlice
            /\ UNCHANGED << ringVars, FrameLength, DDCCounts, PrevRateWord,
                            DecodeByteCount >>
       ELSE LET RateWord == SubSeq(DMAmem, 1, 4)
                lay == Layout(RateWord, PrevRateWord, FrameLength, DDCCounts)
            IN  /\ FrameLength' = lay.FrameLength
                /\ DDCCounts' = lay.DDCCounts
                /\ PrevRateWord' = RateWord
                /\ IF /\ DecodeByteCount >= FrameAdvance(lay.FrameLength)
                      /\ LeavesBuffer(DMAReadPtr, IQHeadPtr, lay.DDCCounts)
                   THEN /\ pc' = "undefined"
                        /\ sliced' = [rw |-> RateWord,
                                      FrameLength |-> lay.FrameLength,
                                      DDCCounts |-> lay.DDCCounts,
                                      src |-> fpos - Len(DMAmem)]
                        /\ UNCHANGED << ringVars, DecodeByteCount >>
                   ELSE IF DecodeByteCount >= FrameAdvance(lay.FrameLength)
                   THEN /\ IQmem' = [d \in DDCs |->
                               IQmem[d] \o SliceSamples(DMAmem, lay.DDCCounts, d)]
                        /\ IQHeadPtr' = [d \in DDCs |->
                               IQHeadPtr[d] + 6 * lay.DDCCounts[d]]
                        /\ DMAReadPtr' = DMAReadPtr + FrameAdvance(lay.FrameLength)
                        /\ DMAmem' = SubSeq(DMAmem, FrameAdvance(lay.FrameLength) + 1,
                                            Len(DMAmem))
                        /\ DecodeByteCount' =
                               DecodeByteCount - FrameAdvance(lay.FrameLength)
                        /\ sliced' = [rw |-> RateWord,
                                      FrameLength |-> lay.FrameLength,
                                      DDCCounts |-> lay.DDCCounts,
                                      src |-> fpos - Len(DMAmem)]
                        /\ pc' = "parse"
                        /\ UNCHANGED << DMAHeadPtr, IQReadPtr >>
                   ELSE /\ pc' = "compact"
                        /\ sliced' = NoSlice
                        /\ UNCHANGED << ringVars, DecodeByteCount >>
    /\ wire' = NoDatagram
    /\ polled' = FALSE
    /\ UNCHANGED << DDC, pktVars, HeaderFound, fifoVars, InitError, SDRActive,
                    sockVars, envVars, session, sessSent, pktsSession, totalSent,
                    syncPos >>

\* lines 298-309: the residue of the DMA buffer is moved in front of the base
CompactDMA ==
    /\ pc = "compact"
    /\ LET c == CompactDMARing(DMAmem, DMAReadPtr, DMAHeadPtr)
       IN  /\ DMAmem' = c.mem
           /\ DMAReadPtr' = c.read
           /\ DMAHeadPtr' = c.head
    /\ pc' = "check"
    /\ Quiet
    /\ UNCHANGED << DDC, IQmem, IQReadPtr, IQHeadPtr, pktVars, parseVars, fifoVars,
                    InitError, SDRActive, sockVars, envVars, session, sessSent,
                    pktsSession, totalSent, syncPos >>

Thread ==
    \/ Idle
    \/ Arm
    \/ StreamCheck
    \/ DrainPacket
    \/ CompactIQ
    \/ PollFIFO
    \/ WaitFIFO
    \/ DMARead
    \/ SyncScan
    \/ ParseFrame
    \/ CompactDMA

Next ==
    \/ StartSDR
    \/ StopSDR
    \/ \E d \in DDCs : RequestChangePort(d)
    \/ Thread

(* ------------------------------ scenarios ------------------------------ *)
\* FIFO depths (in 8-byte words) the monitor may show
LowDepths == {256, 512}
BigDepth == {4097}
AllDepths == {256, 1024, 1025, 2049, 4097}
NoiseLengths == {0, 8, 16, 24, 32, 40, 48, 56, 64}

\* every burst size, one session
ScenBig == Scenario(0, RwBoth32, RwBoth32, 0, -1, 0, AllDepths, {FALSE},
                    MaxBursts, 1, 0, 0, {})

\* the rate word changes at frame 6; after the first burst DDC 0 holds exactly
\* 238 samples
ScenExact == Scenario(24, RwDDC0x32, RwDDC0x2, 6, -1, 0, LowDepths, {FALSE},
                      MaxBursts, MaxStarts, 0, 0, {})

\* noise before the first header
ScenNoise(n) == Scenario(n, RwBoth32, RwDDC1x16, 5, -1, 0, {512}, {FALSE},
                         MaxBursts + 1, 1, 0, 0, {})

\* two sessions with packets in both
ScenTwo == Scenario(16, RwBoth32, RwBoth32, 0, -1, 0, {2049}, {FALSE},
                    MaxBursts, MaxStarts, 0, 0, {})

\* frame 2 comes without the sync byte
ScenBad == Scenario(16, RwBoth32, RwBoth32, 0, 2, 0, {512}, {FALSE},
                    MaxBursts, 1, 0, 0, {})

\* the first sendmsg fails
ScenFail == Scenario(16, RwBoth32, RwBoth32, 0, -1, 1, {2049}, {FALSE},
                     MaxBursts, 1, 0, 0, {})

\* a port change is requested
ScenPorts == Scenario(16, RwDDC0x32, RwDDC0x32, 0, -1, 0, {512}, {FALSE},
                      1, MaxStarts, 0, MaxPortChanges, {})

\* the first burst holds no header
ScenNoSync == Scenario(8192, RwBoth32, RwBoth32, 0, -1, 0, {512}, {FALSE},
                       1, 1, 0, 0, {})

Envs == {ScenBig, ScenExact, ScenTwo, ScenBad, ScenFail, ScenPorts, ScenNoSync}
            \cup {ScenNoise(n) : n \in NoiseLengths}

\* the locals FrameLength and DDCCounts[] hold a value of GarbageLayouts
CleanStack == {g \in GarbageLayouts : g.FrameLength = 0}

Init == InitWith(Envs, CleanStack)

Spec == Init /\ [][Next]_vars

(* ------------------------------ properties ----------------------------- *)
\* the sequence number a datagram carries at offsets 0-3
SeqOf(data) == data[1] * 16777216 + data[2] * 65536 + data[3] * 256 + data[4]

Sent == wire.ddc # -1

Readable(d) == IQHeadPtr[d] - IQReadPtr[d]

\* C1: within a session the k-th datagram offered for a DDC carries sequence
\* number k-1, and a stream start puts every sequence counter back to 0: the
\* counter of a DDC always equals the number of datagrams offered for it since
\* the last stream start.
C1_Sequence ==
    /\ Sent => SeqOf(wire.data) = sessSent[wire.ddc] - 1
    /\ \A d \in DDCs : SequenceCounter[d] = sessSent[d]

\* the second datagram of a DDC in the second session
C1_Witness ==
    /\ Sent
    /\ session = 2
    /\ sessSent[wire.ddc] = 2
    /\ totalSent > pktsSession

\* C2: a datagram handed to sendmsg is 1444 bytes: the sequence number
\* big-endian at 0-3, zeros at 4-11, 0x0018 at 12-13 and at 16-1443 the 1428
\* bytes that were at the read pointer of the DDC's buffer.
C2_Packet ==
    [][(wire'.ddc # -1 /\ wire' # wire) =>
          LET d == wire'.ddc
              p == wire'.data
          IN  /\ Len(p) = 1444
              /\ SeqOf(p) = SequenceCounter[d]
              /\ \A i \in 5 .. 12 : p[i] = 0
              /\ p[13] = 0 /\ p[14] = 24
              /\ \A i \in 1 .. 1428 : p[16 + i] = IQmem[d][i]]_vars

\* a datagram whose payload bytes at offsets 16 and 17 are not zero
C2_Witness ==
    /\ Sent
    /\ SeqOf(wire.data) >= 1
    /\ wire.data[17] # 0
    /\ wire.data[18] # 0

\* C3: a packet is sent only from a buffer with more than 1428 readable bytes
\* and takes exactly 1428 of them; when the drain of a DDC ends at most 1428
\* bytes are readable, and at least 1 if the drain sent a packet.
C3_Drain ==
    [][/\ (wire'.ddc # -1 /\ wire' # wire) =>
             LET d == wire'.ddc
             IN  /\ Readable(d) > 1428
                 /\ IQReadPtr'[d] = IQReadPtr[d] + 1428
                 /\ IQHeadPtr'[d] = IQHeadPtr[d]
                 /\ Len(IQmem'[d]) = Len(IQmem[d]) - 1428
       /\ (pc = "drain" /\ (pc' = "poll" \/ DDC' # DDC)) =>
             /\ IQHeadPtr'[DDC] - IQReadPtr'[DDC] <= 1428
             /\ Len(IQmem'[DDC]) = IQHeadPtr'[DDC] - IQReadPtr'[DDC]
             /\ wire.ddc = DDC => IQHeadPtr'[DDC] - IQReadPtr'[DDC] >= 1]_vars

\* the drain of DDC 0 ended with exactly 1428 readable bytes and no packet
C3_Witness ==
    /\ pc = "poll"
    /\ session = 1
    /\ Readable(0) = 1428
    /\ sessSent[0] = 0

(* ---- what a stream yields, computed from the stream alone ---- *)
Max(a, b) == IF a > b THEN a ELSE b
Min(a, b) == IF a < b THEN a ELSE b

\* the first frame whose header lies at offset 16 or later
SyncFrame(e) == SetMin({f \in 0 .. 3 : FramePos(e, f) >= 16 /\ f # e.bad})

\* payload of packet number k (from 0) of DDC d when parsing starts at frame f0:
\* bytes 1428k .. 1428k+1427 of the samples of d, six bytes per slot
RefPayload(e, f0, d, k) ==
    LET cA == RateCounts(e.rwA)[d]
        cB == RateCounts(e.rwB)[d]
        bA == SumTo(RateCounts(e.rwA), d - 1)
        bB == SumTo(RateCounts(e.rwB), d - 1)
        nA == Max(e.switchAt - f0, 0)
        fB == Max(e.switchAt, f0)
    IN  [i \in 1 .. 1428 |->
            LET j == 1428 * k + i - 1
                n == j \div 6
            IN  IF n < nA * cA
                THEN StreamByte(e, FramePos(e, f0 + (n \div cA)) + 8
                                     + 8 * (bA + (n % cA)) + (j % 6))
                ELSE StreamByte(e, FramePos(e, fB + ((n - nA * cA) \div cB)) + 8
                                     + 8 * (bB + ((n - nA * cA) % cB)) + (j % 6))]

\* packets of DDC d that are due once the first p stream bytes are parsed
RefPacketCount(e, f0, d, p) ==
    LET frames == IF p < e.noise THEN 0 ELSE Max(FrameOf(e, p) - f0, 0)
        nA == Max(e.switchAt - f0, 0)
        samples == RateCounts(e.rwA)[d] * Min(frames, nA)
                   + RateCounts(e.rwB)[d] * Max(frames - nA, 0)
    IN  IF samples = 0 THEN 0 ELSE (6 * samples - 1) \div 1428

Payload(data) == SubSeq(data, 17, Len(data))

\* C4: the packets of a DDC are fixed by the stream and the number of bytes
\* read, whatever the burst sizes: each datagram of the first session is the
\* next 1428 sample bytes of the DDC counted from the sync frame, and after a
\* drain the number of datagrams offered depends only on the bytes read.
C4_BurstIndependent ==
    session = 1 =>
        /\ Sent => /\ Payload(wire.data) =
                        RefPayload(env, SyncFrame(env), wire.ddc,
                                   sessSent[wire.ddc] - 1)
                   /\ SeqOf(wire.data) = sessSent[wire.ddc] - 1
        /\ pc = "poll" =>
              \A d \in DDCs :
                  sessSent[d] = RefPacketCount(env, SyncFrame(env), d, fpos)

\* a datagram after an 8192 byte burst followed by a 4096 byte burst
C4_Witness ==
    /\ Sent
    /\ session = 1
    /\ nbursts = 2
    /\ fpos = 8192 + 4096
    /\ DMATransferSize = 4096

\* the parse loop stands on a header word without the sync byte
FramingLost ==
    /\ pc = "parse"
    /\ HeaderFound
    /\ DecodeByteCount >= 16
    /\ DMAmem[8] # 128

\* C7: when the parse loop stands on a header word whose byte 7 is not 0x80
\* the thread's next step ends the process, and from then on no sample is
\* copied to a DDC buffer and no datagram is sent.
C7_Framing ==
    [][(FramingLost \/ pc = "exited") =>
          /\ pc' \in {pc, "exited"}
          /\ IQmem' = IQmem
          /\ IQHeadPtr' = IQHeadPtr
          /\ totalSent' = totalSent
          /\ UDPBuffer' = UDPBuffer]_vars

\* the process has ended on a header word without the sync byte
C7_Witness ==
    /\ pc = "exited"
    /\ HeaderFound
    /\ DecodeByteCount >= 16
    /\ DMAmem[8] # 128
    /\ env.bad # -1

\* a well-formed stream behind at most 64 bytes of noise
ShortNoise == env.noise <= 64 /\ env.bad = -1

\* C8 as stated: behind noise of any length 0 .. 64 parsing begins at the
\* first real header and the packets are those of the frames from the first on.
C8_Original ==
    (session = 1 /\ ShortNoise /\ syncPos # -1) =>
        /\ syncPos = env.noise
        /\ Sent => Payload(wire.data) =
                      RefPayload(env, 0, wire.ddc, sessSent[wire.ddc] - 1)

\* the frame at which the scan from offset 16 stops
StartFrame(e) == IF e.noise >= 16 THEN 0 ELSE 1

\* C8 amended: behind 16 .. 64 bytes of noise parsing begins at the first real
\* header and the packets are those of the frames from the first on; behind 0
\* or 8 bytes the scan passes over the first header, parsing begins at the
\* header of the second frame and the packets are those of the frames from the
\* second on.
C8_NoiseSkipped ==
    (session = 1 /\ ShortNoise /\ syncPos # -1) =>
        /\ syncPos = FramePos(env, StartFrame(env))
        /\ Sent => Payload(wire.data) =
                      RefPayload(env, StartFrame(env), wire.ddc,
                                 sessSent[wire.ddc] - 1)

\* a datagram sent behind 64 bytes of noise
C8_Witness ==
    /\ Sent
    /\ session = 1
    /\ env.noise = 64
    /\ syncPos = 64

ScenAllOnes == Scenario(16, AllOnes, RwBoth32, 1, -1, 0, {512}, {FALSE},
                        MaxBursts, 1, 0, 0, {})

EnvsRate == {ScenAllOnes, ScenExact, ScenTwo, ScenPorts}

InitRate == InitWith(EnvsRate, GarbageLayouts)

SpecRate == InitRate /\ [][Next]_vars

\* C5: the frame length and the per-DDC counts used to slice a frame are those
\* AnalyseDDCHeader gives for the rate word of that frame.
C5_Layout ==
    sliced.src # -1 =>
        /\ sliced.FrameLength = AnalyseDDCHeader(sliced.rw).FrameLength
        /\ sliced.DDCCounts = AnalyseDDCHeader(sliced.rw).DDCCounts

(* ---- streams that run past the start-up delay ---- *)
ScenStartup == Scenario(16, RwBoth32, RwBoth32, 0, -1, 0, LowDepths, BOOLEAN,
                        MaxBurstsStartup, MaxStarts, VSTARTUPDELAY + 1, 0, {1})

EnvsStartup == {ScenStartup, ScenPorts}

InitStartup == InitWith(EnvsStartup, CleanStack)

SpecStartup == InitStartup /\ [][Next]_vars

\* C6: StartupCount is 100 less the datagrams sent in the session, never below
\* 0; a read of the FIFO monitor sets bit 0 of GlobalFIFOOverflows exactly when
\* it shows over-threshold after 100 datagrams of the session, and nothing else
\* changes GlobalFIFOOverflows.
C6_Startup ==
    /\ [](session >= 1 => StartupCount = Max(100 - pktsSession, 0))
    /\ [][GlobalFIFOOverflows' =
             IF polled' /\ FIFOOverThreshold' /\ pktsSession >= 100
             THEN GlobalFIFOOverflows \cup {0}
             ELSE GlobalFIFOOverflows]_vars

\* over-threshold seen after 100 datagrams: bit 0 is set, bit 1 is kept
C6_Witness ==
    /\ polled
    /\ FIFOOverThreshold
    /\ pktsSession >= 100
    /\ GlobalFIFOOverflows = {0, 1}

(* ---- the thread is scheduled again and again ---- *)
WaitDepths == {128, 256, 512}

ScenLive == Scenario(16, RwDDC0x32, RwDDC0x32, 0, -1, 0, WaitDepths, {FALSE},
                     MaxBursts, MaxStarts, 0, MaxPortChanges, {})

InitLive == InitWith({ScenLive}, CleanStack)

LiveSpec == InitLive /\ [][Next]_vars /\ WF_vars(Thread)

Streaming == pc \in {"check", "drain", "poll", "wait", "sync", "parse", "compact"}

\* C10 as stated: once SDRActive is false while streaming, the thread reaches
\* the idle loop (unless SDRActive is set again), whatever the FIFO depth does.
C10_Original ==
    [](( Streaming /\ ~SDRActive) => <>(pc = "idle" \/ SDRActive))

\* the thread is in the wait loop and the depth read last is too low
Starved == pc = "wait" /\ MustWait(Depth, DMATransferSize)

\* C10 amended: if the FIFO depth does not stay below the awaited depth for
\* ever, then once SDRActive is false while streaming the thread reaches the
\* idle loop or ends on a fatal error (unless SDRActive is set again).
C10_StopsWhenFed ==
    ([]<>(~Starved)) =>
        [](( Streaming /\ ~SDRActive) =>
              <>(pc \in {"idle", "done", "exited"} \/ SDRActive))

\* the thread is back in the idle loop after a stop asked for while it
\* streamed
C10_Witness ==
    /\ pc = "idle"
    /\ session >= 1
    /\ ~SDRActive
    /\ nbursts >= 1

(* ---- leaving the streaming loop ---- *)
\* C11: when the thread is back in the idle loop after a stream, the DDC has
\* been disabled (SetRXDDCEnabled(false)), so that every arming turns it from
\* off to on.
C11_DisabledWhenIdle ==
    (pc = "idle" /\ session >= 1) => ~RXDDCEnabled

\* C12: once the thread has ended on a fatal error, the socket of every DDC is
\* closed, the Active flag of every DDC is false and the buffers are freed.
C12_Shutdown ==
    pc \in {"done", "exited"} =>
        /\ \A d \in DDCs : Socketid[d] \notin OpenSockets
        /\ \A d \in DDCs : ~Active[d]
        /\ BuffersFreed

\* C13: after a sendmsg that failed no further datagram is offered and the
\* thread goes to the end of the loops: it does not reach the FIFO poll, the
\* DMA read or the parse loop with the error set.
C13_StopsAfterSendError ==
    /\ env.failAt > 0 => totalSent <= env.failAt
    /\ InitError => pc \notin {"poll", "wait", "sync", "parse", "compact"}

(* ---- port changes ---- *)
\* C14: sockets are closed and rebound only by a pass of the idle loop with
\* SDRActive false: the pass closes the socket of every DDC whose changeport
\* bit is set, gives it a new one and clears the bit, and leaves the other
\* DDCs alone; while the thread streams no socket changes and no changeport
\* bit is cleared.
C14_PortChange ==
    [][(/\ pc' # "done"
        /\ \/ Socketid' # Socketid
           \/ OpenSockets' # OpenSockets
           \/ \E d \in DDCs : ~(Cmdid[d] \subseteq Cmdid'[d])) =>
          /\ pc = "idle"
          /\ ~SDRActive
          /\ \A d \in DDCs :
                IF "changeport" \in Cmdid[d]
                THEN /\ Socketid[d] \notin OpenSockets'
                     /\ Socketid'[d] \in OpenSockets'
                     /\ Socketid'[d] # Socketid[d]
                     /\ Cmdid'[d] = Cmdid[d] \ {"changeport"}
                ELSE /\ Socketid'[d] = Socketid[d]
                     /\ Socketid[d] \in OpenSockets'
                     /\ Cmdid'[d] = Cmdid[d]]_vars

\* a port change has been served in the idle loop that follows a stream, and
\* the other DDC has kept its socket
C14_Witness ==
    /\ pc = "idle"
    /\ session >= 1
    /\ nports >= 1
    /\ \E d \in DDCs : Socketid[d] # d /\ "changeport" \notin Cmdid[d]
    /\ \E d \in DDCs : Socketid[d] = d /\ Socketid[d] \in OpenSockets

(* ---- sync acquisition ---- *)
\* offsets from DMAReadPtr the scan may look at: 16, 24, ... below the number
\* of readable bytes
ScanOffsets == {c \in 16 .. (DMAHeadPtr - DMAReadPtr - 1) : c % 8 = 0}

\* C15: with HeaderFound false the scan after a burst moves DMAReadPtr to the
\* lowest offset 16, 24, 32, ... below DMAHeadPtr - DMAReadPtr whose byte 7 is
\* 0x80 and sets HeaderFound (offsets 0 and 8 are not looked at); when there is
\* none the process ends, and no sample is copied and no datagram is sent.
C15_SyncScan ==
    [][(pc = "sync" /\ pc' # "sync" /\ ~HeaderFound) =>
          IF \E c \in ScanOffsets : DMAmem[c + 8] = 128
          THEN /\ HeaderFound'
               /\ DMAReadPtr' - DMAReadPtr \in ScanOffsets
               /\ DMAmem[(DMAReadPtr' - DMAReadPtr) + 8] = 128
               /\ \A c \in ScanOffsets :
                     c < DMAReadPtr' - DMAReadPtr => DMAmem[c + 8] # 128
               /\ DMAHeadPtr' = DMAHeadPtr
               /\ StreamByte(env, syncPos' + 7) = 128
               /\ pc' = "parse"
          ELSE /\ pc' = "exited"
               /\ IQmem' = IQmem
               /\ IQHeadPtr' = IQHeadPtr
               /\ totalSent' = totalSent
               /\ wire' = NoDatagram]_vars

\* the scan has passed over a header at offset 0 and stopped at the header of
\* the second frame
C15_Witness ==
    /\ pc = "parse"
    /\ HeaderFound
    /\ nbursts = 1
    /\ env.noise = 0
    /\ syncPos = FramePos(env, 1)
    /\ DMAReadPtr = VBASE + FramePos(env, 1)

(* ---- burst size ---- *)
\* C16: a DMA read has 4096, 8192, 16384 or 32768 bytes, by the depth read
\* last from the FIFO monitor (more than 4096, 2048, 1024 words, or less), and
\* that depth is at least an eighth of the size read, although the wait loop
\* compared it with the size of the read before.
C16_BurstSize ==
    [][nbursts' # nbursts =>
          /\ DMATransferSize' \in {4096, 8192, 16384, 32768}
          /\ DMATransferSize' % 8 = 0
          /\ Depth > 4096 <=> DMATransferSize' = 32768
          /\ (Depth > 2048 /\ Depth <= 4096) <=> DMATransferSize' = 16384
          /\ (Depth > 1024 /\ Depth <= 2048) <=> DMATransferSize' = 8192
          /\ Depth <= 1024 <=> DMATransferSize' = 4096
          /\ 8 * Depth >= DMATransferSize'
          /\ 8 * Depth >= DMATransferSize
          /\ Depth' = Depth
          /\ DMAHeadPtr' = DMAHeadPtr + DMATransferSize'
          /\ fpos' = fpos + DMATransferSize']_vars

\* a read of 32768 bytes straight after a read of 4096 bytes
C16_Witness ==
    /\ pc = "sync"
    /\ nbursts = 2
    /\ DMATransferSize = 32768
    /\ Depth = 4097
    /\ fpos = 4096 + 32768

(* ---- one pass of the parse loop ---- *)
\* the pass has sliced a complete frame
Sliced == sliced.src # -1

\* a step of the thread in the parse loop (the other threads change SDRActive
\* or Cmdid)
ParsePass == pc = "parse" /\ SDRActive' = SDRActive /\ Cmdid' = Cmdid

\* C17: a pass of the parse loop that finds a complete frame appends to the
\* buffer of each DDC d the 6 * DDCCounts[d] bytes of DDCCounts[d] consecutive
\* 8-byte slots, bytes 6-7 of a slot left out, the slots of DDC 0 directly
\* after the header word, then those of DDC 1, and so on, and moves DMAReadPtr by
\* (FrameLength + 1) * 8; a pass that finds less than a complete frame, or less
\* than 16 bytes, moves no pointer and copies nothing.
C17_ParsePass ==
    [][(ParsePass /\ pc' \in {"parse", "compact"}) =>
          IF Sliced'
          THEN /\ DecodeByteCount >= (FrameLength' + 1) * 8
               /\ \A d \in DDCs :
                     /\ IQHeadPtr'[d] = IQHeadPtr[d] + 6 * DDCCounts'[d]
                     /\ IQReadPtr'[d] = IQReadPtr[d]
                     /\ Len(IQmem'[d]) = Len(IQmem[d]) + 6 * DDCCounts'[d]
                     /\ \A j \in 0 .. (6 * DDCCounts'[d] - 1) :
                           IQmem'[d][Len(IQmem[d]) + j + 1] =
                              StreamByte(env, sliced'.src + 8
                                  + 8 * (SumTo(DDCCounts', d - 1) + (j \div 6))
                                  + (j % 6))
               /\ DMAReadPtr' = DMAReadPtr + (FrameLength' + 1) * 8
               /\ DecodeByteCount' = DecodeByteCount - (FrameLength' + 1) * 8
               /\ DMAHeadPtr' = DMAHeadPtr
          ELSE /\ \/ DecodeByteCount < 16
                  \/ DecodeByteCount < (FrameLength' + 1) * 8
               /\ ringVars' = ringVars
               /\ DecodeByteCount' = DecodeByteCount]_vars

\* a frame with 32 samples for DDC 0 and none for DDC 1 has been sliced
C17_Witness ==
    /\ Sliced
    /\ sliced.DDCCounts[0] = 32
    /\ sliced.DDCCounts[1] = 0
    /\ IQHeadPtr[0] - IQReadPtr[0] >= 192
    /\ IQHeadPtr[1] = IQReadPtr[1]

(* ---- compaction ---- *)
\* C18 for one buffer: what a compact step makes of the pointers and of the
\* live bytes
Compacted(mem, read, head, mem2, read2, head2) ==
    /\ mem2 = mem
    /\ Len(mem2) = head2 - read2
    /\ IF read > VBASE
       THEN head2 = VBASE /\ read2 = VBASE - (head - read)
       ELSE head2 = head /\ read2 = read

\* C18: a compact keeps the bytes between the read and the head pointer, in
\* order and number; with read > base before, head = base and
\* read = base - residue afterwards, otherwise nothing changes; and a frame
\* that was cut by the end of a burst is sliced from the bytes of the stream
\* once the next burst is appended.
C18_Compact ==
    [][/\ (pc = "compact" /\ pc' = "check") =>
             Compacted(DMAmem, DMAReadPtr, DMAHeadPtr,
                       DMAmem', DMAReadPtr', DMAHeadPtr')
       /\ (pc = "drain" /\ (pc' = "poll" \/ DDC' # DDC)) =>
             Compacted(IQmem[DDC], IQReadPtr[DDC], IQHeadPtr[DDC],
                       IQmem'[DDC], IQReadPtr'[DDC], IQHeadPtr'[DDC])
       /\ (ParsePass /\ Sliced') =>
             /\ SubSeq(DMAmem, 1, (FrameLength' + 1) * 8) =
                   StreamBytes(env, sliced'.src, (FrameLength' + 1) * 8)
             /\ sliced'.src = fpos - (DMAHeadPtr - DMAReadPtr)]_vars

\* a frame that began in the burst before the last one has been sliced
C18_Witness ==
    /\ Sliced
    /\ nbursts >= 2
    /\ sliced.src < fpos - DMATransferSize
    /\ sliced.src + (sliced.FrameLength + 1) * 8 > fpos - DMATransferSize

(* ---- the buffers ---- *)
\* C19: with frames of at most 4096 bytes every access stays inside its
\* buffer of VDMABUFFERSIZE bytes: the parse loop neither reads nor writes
\* behind the end of a buffer, a DMA read ends at or before the end of the DMA
\* buffer, and a compact moves at most 4096 bytes (DMA buffer) or 1428 bytes
\* (buffer of a DDC) to a place at or after the start of the buffer.
C19_MemorySafe ==
    (FrameLength + 1) * 8 <= 4096 =>
        /\ pc # "undefined"
        /\ DMAHeadPtr <= VDMABUFFERSIZE /\ DMAReadPtr >= 0
        /\ \A d \in DDCs : IQHeadPtr[d] <= VDMABUFFERSIZE /\ IQReadPtr[d] >= 0
        /\ (pc = "wait" /\ ~MustWait(Depth, DMATransferSize)) =>
              DMAHeadPtr + BurstSize(Depth) <= VDMABUFFERSIZE
        /\ (pc = "compact" /\ DMAReadPtr > VBASE) =>
              DMAHeadPtr - DMAReadPtr <= 4096
        /\ (pc = "drain" /\ ~DrainMore(IQHeadPtr[DDC], IQReadPtr[DDC])
              /\ IQReadPtr[DDC] > VBASE) => Readable(DDC) <= 1428

\* C20: at every stream start the DMA buffer and the buffer of every DDC are
\* empty, so that no byte read before the stream start is sent in the new
\* session. (At the loop condition HeaderFound is false only directly after
\* arming.)
C20_SessionIsolation ==
    (pc = "check" /\ ~HeaderFound) =>
        /\ DMAHeadPtr = DMAReadPtr
        /\ \A d \in DDCs : IQHeadPtr[d] = IQReadPtr[d]

====
